---- MODULE Spec2Model ----
(***************************************************************************)
(* A model of the data-preparation code of romilly/scholarly:              *)
(*   - batch_iter       (src/data.py)      : SpecBatch                     *)
(*   - preprocess_data  (src/data.py and src/src/data.py) : SpecPre        *)
(*   - BatchWrapper     (src/data.py and src/src/data.py) : SpecWrap       *)
(***************************************************************************)
EXTENDS Integers, Sequences, FiniteSets, TLC

(***************************************************************************)
(* Bounds of the model.                                                    *)
(***************************************************************************)
\* longest input iterable of batch_iter
MaxLen == 4

\* largest batch_size argument
MaxBatch == 2

\* most rows of an input TSV file
MaxRows == 3

\* most batches of a wrapped iterator
MaxBatches == 2

\* most samples in a batch of a wrapped iterator
MaxSamples == 2

VARIABLES
    \* ---- batch_iter ----
    iterable,      \* the input iterable, as the sequence it produces
    bsize,         \* the batch_size argument of batch_iter
    src_pos,       \* number of elements already taken from source_iter
    gen_state,     \* "created" | "suspended" (at the yield) | "finished"
    batches,       \* the chain objects yielded so far, in order
    disciplined,   \* history: every batch was drained before the next request
    \* ---- preprocess_data ----
    ver,           \* which module runs: "data" (src/data.py) | "src_data"
    txt_fname,     \* the txt_fname argument
    batch_size,    \* the batch_size argument
    cats_tsv,      \* the input file data_dir/<cats_fname|tsv_fname>.tsv
    mcats_tsv,     \* the input file data_dir/<mcats_fname>.tsv (src/data.py)
    pc,            \* position in preprocess_data
    txt_path,      \* the local txt_path (file name below data_dir)
    df,            \* the local DataFrame df
    docs,          \* the local Series docs (its values, in order)
    doc_i,         \* number of documents the tokenisation loop has written
    loop_i,        \* position in INS_OUTS
    txt_files,     \* the text files below data_dir, by name
    out_files,     \* the '_pp.tsv' files below data_dir, by input
    \* ---- BatchWrapper ----
    data_iter,     \* self.data_iter: the wrapped iterator
    bw_batch_size, \* self.batch_size
    bw_cats,       \* self.cats
    it_state,      \* the generator of __iter__: "none" | "running" | "finished"
    it_pos,        \* number of batches the generator has taken from data_iter
    yielded,       \* the (x, y) pairs the generator has yielded, in order
    len_result     \* what the last call of __len__ returned (-1: not called)

batchVars == <<iterable, bsize, src_pos, gen_state, batches, disciplined>>

preVars == <<ver, txt_fname, batch_size, cats_tsv, mcats_tsv, pc, txt_path,
             df, docs, doc_i, loop_i, txt_files, out_files>>

wrapVars == <<data_iter, bw_batch_size, bw_cats, it_state, it_pos, yielded,
              len_result>>

vars == <<batchVars, preVars, wrapVars>>

-----------------------------------------------------------------------------
(***************************************************************************)
(* Helpers on sequences.                                                   *)
(***************************************************************************)
RECURSIVE SeqsUpTo(_, _)
SeqsUpTo(S, n) ==
    IF n = 0 THEN {<<>>}
    ELSE LET shorter == SeqsUpTo(S, n - 1)
         IN  shorter \cup {Append(s, x) : s \in shorter, x \in S}

RECURSIVE Concat(_)
Concat(ss) == IF ss = <<>> THEN <<>> ELSE Head(ss) \o Concat(Tail(ss))

-----------------------------------------------------------------------------
(***************************************************************************)
(* Each specification below runs one part of the program; the variables of *)
(* the other parts rest at these values.                                   *)
(***************************************************************************)
TxtNames == {"preprocessed_docs.txt", "other.txt"}

\* no DataFrame bound to df
NoFrame == [columns |-> <<>>, index |-> <<>>, data |-> <<>>, dtypes |-> <<>>]

\* a '_pp.tsv' file that does not exist
NoFile == [exists |-> FALSE, columns |-> <<>>, rows |-> <<>>]

\* a text file that does not exist
NoTxt == [exists |-> FALSE, data |-> <<>>]

EmptyTsv == [columns |-> <<>>, rows |-> <<>>]

NoIter == [batch_size |-> 0, batches |-> <<>>]

BatchIdle ==
    /\ iterable = <<>> /\ bsize = 0 /\ src_pos = 0
    /\ gen_state = "idle" /\ batches = <<>> /\ disciplined = TRUE

PreIdle ==
    /\ ver = "none" /\ txt_fname = "" /\ batch_size = 0
    /\ cats_tsv = EmptyTsv /\ mcats_tsv = EmptyTsv
    /\ pc = "idle" /\ txt_path = "" /\ df = NoFrame /\ docs = <<>>
    /\ doc_i = 0 /\ loop_i = 0
    /\ txt_files = [n \in TxtNames |-> NoTxt]
    /\ out_files = [n \in {"cats", "mcats"} |-> NoFile]

WrapIdle ==
    /\ data_iter = NoIter /\ bw_batch_size = 0 /\ bw_cats = <<>>
    /\ it_state = "idle" /\ it_pos = 0 /\ yielded = <<>> /\ len_result = -1

-----------------------------------------------------------------------------
(***************************************************************************)
(* batch_iter: a generator over islice/chain objects sharing source_iter.  *)
(***************************************************************************)
Elems == 1..2

\* next(source_iter) would return an element (otherwise StopIteration)
SourceHasNext == src_pos < Len(iterable)

\* islice(source_iter, batch_size) followed by next(batch_iter):
\* the slice has batch_size - 1 elements left after its first was taken
IsliceAfterFirstMut(n) == n
IsliceAfterFirst(n) == n - 1

\* chain([next(batch_iter)], batch_iter)
NewChain(first, n) ==
    [head |-> <<first>>, remaining |-> IsliceAfterFirst(n),
     got |-> <<>>, done |-> FALSE]

\* nothing more can be drawn from chain object b
Drained(b) ==
    /\ b.head = <<>>
    /\ b.done \/ b.remaining = 0 \/ ~SourceHasNext

\* the consumer requests the next batch; history of the consumer's discipline
Discipline ==
    disciplined /\ (batches # <<>> => Drained(batches[Len(batches)]))

InitBatch ==
    /\ iterable \in SeqsUpTo(Elems, MaxLen)
    /\ bsize \in 0..MaxBatch
    /\ src_pos = 0
    /\ gen_state = "created"
    /\ batches = <<>>
    /\ disciplined = TRUE
    /\ PreIdle
    /\ WrapIdle

\* next(gen): the loop body reaches the yield
GenYield ==
    /\ gen_state \in {"created", "suspended"}
    /\ bsize >= 1 /\ SourceHasNext
    /\ batches' = Append(batches, NewChain(iterable[src_pos + 1], bsize))
    /\ src_pos' = src_pos + 1
    /\ gen_state' = "suspended"
    /\ disciplined' = Discipline
    /\ UNCHANGED <<iterable, bsize, preVars, wrapVars>>

\* next(gen): next(batch_iter) raises StopIteration, caught: break
GenFinish ==
    /\ gen_state \in {"created", "suspended"}
    /\ ~(bsize >= 1 /\ SourceHasNext)
    /\ gen_state' = "finished"
    /\ disciplined' = Discipline
    /\ UNCHANGED <<iterable, bsize, src_pos, batches, preVars, wrapVars>>

\* next(batch) on the k-th chain: its first iterable [first] has the element
ChainHead(k) ==
    /\ ~batches[k].done /\ batches[k].head # <<>>
    /\ batches' = [batches EXCEPT ![k].head = <<>>,
                                  ![k].got = @ \o batches[k].head]
    /\ UNCHANGED <<iterable, bsize, src_pos, gen_state, disciplined,
                   preVars, wrapVars>>

\* next(batch) on the k-th chain: the islice pulls from the shared source
ChainPull(k) ==
    /\ ~batches[k].done /\ batches[k].head = <<>>
    /\ batches[k].remaining > 0 /\ SourceHasNext
    /\ batches' = [batches EXCEPT ![k].remaining = @ - 1,
                                  ![k].got = Append(@, iterable[src_pos + 1])]
    /\ src_pos' = src_pos + 1
    /\ UNCHANGED <<iterable, bsize, gen_state, disciplined, preVars, wrapVars>>

\* next(batch) on the k-th chain raises StopIteration
ChainStop(k) ==
    /\ ~batches[k].done /\ batches[k].head = <<>>
    /\ ~(batches[k].remaining > 0 /\ SourceHasNext)
    /\ batches' = [batches EXCEPT ![k].done = TRUE]
    /\ UNCHANGED <<iterable, bsize, src_pos, gen_state, disciplined,
                   preVars, wrapVars>>

NextBatch ==
    \/ GenYield
    \/ GenFinish
    \/ \E k \in 1..Len(batches) : ChainHead(k)
    \/ \E k \in 1..Len(batches) : ChainPull(k)
    \/ \E k \in 1..Len(batches) : ChainStop(k)

SpecBatch == InitBatch /\ [][NextBatch]_vars

Got == Concat([k \in 1..Len(batches) |-> batches[k].got])

C4_NeverFinishes == bsize >= 1 => gen_state # "finished"

-----------------------------------------------------------------------------
(***************************************************************************)
(* preprocess_data.  Text is a sequence of symbols: words, " " and "\n".   *)
(* A TSV file is its header (columns) and its rows, a row mapping each     *)
(* column to the text of its field; an empty field is <<>>.                *)
(***************************************************************************)
\* pandas values: NaN, a number, a string
NaN == [nan |-> TRUE]

Num(n) == [n |-> n]

Str(s) == [s |-> s]

IntText == [n \in 0..1 |-> IF n = 0 THEN <<"0">> ELSE <<"1">>]

FloatText == [n \in 0..1 |-> IF n = 0 THEN <<"0.0">> ELSE <<"1.0">>]

IsNumText(cell) == \E n \in 0..1 : cell \in {IntText[n], FloatText[n]}

ParseNum(cell) == CHOOSE n \in 0..1 : cell \in {IntText[n], FloatText[n]}

\* pd.read_csv parses a field: empty is NaN, numerals are numbers
ParseCell(cell) ==
    IF cell = <<>> THEN NaN
    ELSE IF IsNumText(cell) THEN Num(ParseNum(cell))
    ELSE Str(cell)

\* the dtype pd.read_csv infers for a column
ColDtype(tsv, c) ==
    IF \A i \in 1..Len(tsv.rows) :
           tsv.rows[i][c] = <<>> \/ IsNumText(tsv.rows[i][c])
    THEN IF \E i \in 1..Len(tsv.rows) : tsv.rows[i][c] = <<>>
              \/ \E n \in 0..1 : tsv.rows[i][c] = FloatText[n]
         THEN "float64" ELSE "int64"
    ELSE "object"

\* the elements of a sequence that are in S, in order
RECURSIVE Only(_, _)
Only(seq, S) ==
    IF seq = <<>> THEN <<>>
    ELSE (IF Head(seq) \in S THEN <<Head(seq)>> ELSE <<>>) \o Only(Tail(seq), S)

\* the elements of a sequence that are not in S, in order
RECURSIVE Without(_, _)
Without(seq, S) ==
    IF seq = <<>> THEN <<>>
    ELSE (IF Head(seq) \notin S THEN <<Head(seq)>> ELSE <<>>)
         \o Without(Tail(seq), S)

Range(f) == {f[i] : i \in DOMAIN f}

\* pd.read_csv(path, sep = '\t', usecols = ...): the columns in file order,
\* a fresh RangeIndex, every field parsed
ReadCsv(tsv, usecols) ==
    LET cols == Only(tsv.columns, usecols)
    IN  [columns |-> cols,
         index   |-> [i \in 1..Len(tsv.rows) |-> i - 1],
         data    |-> [i \in 1..Len(tsv.rows) |->
                        [c \in Range(cols) |-> ParseCell(tsv.rows[i][c])]],
         dtypes  |-> [c \in Range(cols) |-> ColDtype(tsv, c)]]

AllColumns(tsv) == Range(tsv.columns)

\* the positions of a frame's rows that have no NaN
RECURSIVE KeptPositions(_, _)
KeptPositions(data, i) ==
    IF i > Len(data) THEN <<>>
    ELSE (IF \A c \in DOMAIN data[i] : data[i][c] # NaN THEN <<i>> ELSE <<>>)
         \o KeptPositions(data, i + 1)

\* DataFrame.dropna(): rows with a NaN go, the others keep their index label
Dropna(frame) ==
    LET kept == KeptPositions(frame.data, 1)
    IN  [frame EXCEPT !.index = [k \in 1..Len(kept) |-> frame.index[kept[k]]],
                      !.data  = [k \in 1..Len(kept) |-> frame.data[kept[k]]]]

\* DataFrame.drop(columns = ...)
DropColumns(frame, dropped) ==
    LET cols == Without(frame.columns, dropped)
    IN  [frame EXCEPT
           !.columns = cols,
           !.data = [i \in 1..Len(frame.data) |->
                        [c \in Range(cols) |-> frame.data[i][c]]],
           !.dtypes = [c \in Range(cols) |-> frame.dtypes[c]]]

\* df[name] = values can be carried out (otherwise pandas raises ValueError):
\* a frame without rows takes its index from the values
CanAssign(frame, values) ==
    Len(frame.index) = 0 \/ Len(values) = Len(frame.index)

\* df[name] = values, for a list of values: positional; a frame without rows
\* is first reindexed to the values' RangeIndex, its columns filled with NaN
AssignColumn(frame, name, values) ==
    LET n    == Len(values)
        cols == IF name \in Range(frame.columns) THEN frame.columns
                ELSE Append(frame.columns, name)
        old  == IF Len(frame.index) = 0 /\ n > 0
                THEN [i \in 1..n |-> [c \in Range(frame.columns) |-> NaN]]
                ELSE frame.data
    IN  [columns |-> cols,
         index   |-> IF Len(frame.index) = 0 /\ n > 0
                     THEN [i \in 1..n |-> i - 1] ELSE frame.index,
         data    |-> [i \in 1..n |->
                        [c \in Range(cols) |->
                            IF c = name THEN Str(values[i]) ELSE old[i][c]]],
         dtypes  |-> [c \in Range(cols) |->
                        IF c = name THEN "object" ELSE frame.dtypes[c]]]

\* df[columns]: the listed columns, in the listed order
SelectColumns(frame, cols) ==
    [frame EXCEPT
       !.columns = cols,
       !.data = [i \in 1..Len(frame.data) |->
                    [c \in Range(cols) |-> frame.data[i][c]]],
       !.dtypes = [c \in Range(cols) |-> frame.dtypes[c]]]

\* how DataFrame.to_csv writes a value of a column of the given dtype
FormatCell(v, dtype) ==
    IF v = NaN THEN <<>>
    ELSE IF "s" \in DOMAIN v THEN v.s
    ELSE IF dtype = "float64" THEN FloatText[v.n] ELSE IntText[v.n]

\* DataFrame.to_csv(path, sep = '\t', index = False)
ToCsv(frame) ==
    [exists  |-> TRUE,
     columns |-> frame.columns,
     rows    |-> [i \in 1..Len(frame.data) |->
                    [c \in Range(frame.columns) |->
                        FormatCell(frame.data[i][c], frame.dtypes[c])]]]

\* the tokenizer on text whose words are separated by single spaces
RECURSIVE Tokenize(_)
Tokenize(s) ==
    IF s = <<>> THEN <<>>
    ELSE IF Head(s) = " " THEN Tokenize(Tail(s))
    ELSE LET rest == Tokenize(Tail(s))
         IN  IF Len(s) > 1 /\ s[2] # " "
             THEN <<<<Head(s)>> \o Head(rest)>> \o Tail(rest)
             ELSE <<<<Head(s)>>>> \o rest

\* sep.join(tokens)
RECURSIVE Join(_, _)
Join(sep, toks) ==
    IF toks = <<>> THEN <<>>
    ELSE IF Len(toks) = 1 THEN Head(toks)
    ELSE Head(toks) \o sep \o Join(sep, Tail(toks))

\* the line the tokenisation loop writes for a document
DocLineMut(doc) == Join(<<" ">>, Tokenize(doc))
DocLine(doc) == Join(<<" ">>, Tokenize(doc)) \o <<"\n">>

\* file.readlines(): the lines, each with its terminating newline
RECURSIVE ReadLinesFrom(_, _)
ReadLinesFrom(s, cur) ==
    IF s = <<>> THEN (IF cur = <<>> THEN <<>> ELSE <<cur>>)
    ELSE IF Head(s) = "\n"
         THEN <<Append(cur, "\n")>> \o ReadLinesFrom(Tail(s), <<>>)
         ELSE ReadLinesFrom(Tail(s), Append(cur, Head(s)))

ReadLines(s) == ReadLinesFrom(s, <<>>)

\* the merged document of a row
MergeDoc(v, row) ==
    IF v = "data"
    THEN row["title"].s \o <<" ">> \o row["abstract"].s
    ELSE <<"-TITLE_START-", " ">> \o row["title"].s
         \o <<" ", "-TITLE_END-", " ", "-ABSTRACT_START-", " ">>
         \o row["abstract"].s \o <<" ", "-ABSTRACT_END-">>

\* txt_path, below data_dir
TxtPath(v, fname) == IF v = "data" THEN "preprocessed_docs.txt" ELSE fname

\* INS_OUTS: the inputs whose '_pp.tsv' is written, in order
InsOuts(v) == IF v = "data" THEN <<"cats", "mcats">> ELSE <<"cats">>

InputTsv(name) == IF name = "cats" THEN cats_tsv ELSE mcats_tsv

-----------------------------------------------------------------------------
(***************************************************************************)
(* The inputs of preprocess_data: TSV files of up to MaxRows articles with *)
(* a title, an abstract and category columns; any field may be missing.    *)
(***************************************************************************)
Words == <<"w1", "w2", "w3", "w4">>

\* a row: which of title and abstract it has, and which of its category
\* fields (c1 in the categories file, m1 in the master categories file)
RowKinds(v) ==
    [doc : {"both", "no_title", "no_abstract"},
     cat : IF v = "data" THEN {"all", "no_c1", "no_m1"} ELSE {"all", "no_c1"}]

TitleOf(i, k) == IF k.doc # "no_title" THEN <<Words[i], " ", "of">> ELSE <<>>

AbstractOf(k) == IF k.doc # "no_abstract" THEN <<"abs">> ELSE <<>>

CatsColumns(layout) ==
    IF layout = 1 THEN <<"title", "abstract", "c1", "c2">>
    ELSE <<"c2", "title", "c1", "abstract">>

McatsColumns(layout) ==
    IF layout = 1 THEN <<"title", "abstract", "m1">>
    ELSE <<"m1", "abstract", "title">>

CatsFile(layout, kinds) ==
    [columns |-> CatsColumns(layout),
     rows |-> [i \in 1..Len(kinds) |->
                 [title |-> TitleOf(i, kinds[i]),
                  abstract |-> AbstractOf(kinds[i]),
                  c1 |-> IF kinds[i].cat = "no_c1" THEN <<>> ELSE <<"1">>,
                  c2 |-> IntText[i % 2]]]]

McatsFile(layout, kinds) ==
    [columns |-> McatsColumns(layout),
     rows |-> [i \in 1..Len(kinds) |->
                 [title |-> TitleOf(i, kinds[i]),
                  abstract |-> AbstractOf(kinds[i]),
                  m1 |-> IF kinds[i].cat = "no_m1" THEN <<>> ELSE <<"1">>]]]

InitPre ==
    /\ BatchIdle
    /\ WrapIdle
    /\ ver \in {"data", "src_data"}
    /\ txt_fname \in TxtNames
    /\ batch_size \in {1, MaxBatch}
    /\ \E layout \in 1..2 : \E n \in 0..MaxRows :
         \E kinds \in [1..n -> RowKinds(ver)] :
            /\ cats_tsv = CatsFile(layout, kinds)
            /\ mcats_tsv = IF ver = "data" THEN McatsFile(layout, kinds)
                           ELSE EmptyTsv
    /\ pc = "paths"
    /\ txt_path = ""
    /\ df = NoFrame
    /\ docs = <<>>
    /\ doc_i = 0
    /\ loop_i = 0
    /\ txt_files = [n \in TxtNames |-> NoTxt]
    /\ out_files = [n \in {"cats", "mcats"} |-> NoFile]

\* what preprocess_data never writes: its arguments and input files, and
\* the state of the other parts
inputs == <<ver, txt_fname, batch_size, cats_tsv, mcats_tsv, batchVars,
            wrapVars>>

\* "Specify the input- and output paths"
SetPaths ==
    /\ pc = "paths"
    /\ txt_path' = TxtPath(ver, txt_fname)
    /\ pc' = "read"
    /\ UNCHANGED <<inputs, df, docs, doc_i, loop_i, txt_files, out_files>>

\* df = pd.read_csv(cats_in, sep = '\t', usecols = ['title', 'abstract'])
ReadTitles ==
    /\ pc = "read"
    /\ df' = ReadCsv(cats_tsv, {"title", "abstract"})
    /\ pc' = "merge"
    /\ UNCHANGED <<inputs, txt_path, docs, doc_i, loop_i, txt_files, out_files>>

\* df.dropna(inplace = True); docs = <merged titles and abstracts>; del df
MergeDocs ==
    /\ pc = "merge"
    /\ LET kept == Dropna(df)
       IN  docs' = [i \in 1..Len(kept.data) |-> MergeDoc(ver, kept.data[i])]
    /\ df' = NoFrame
    /\ pc' = "open"
    /\ UNCHANGED <<inputs, txt_path, doc_i, loop_i, txt_files, out_files>>

\* with open(txt_path, 'w') as f
OpenTxt ==
    /\ pc = "open"
    /\ txt_files' = [txt_files EXCEPT ![txt_path] =
                        [exists |-> TRUE, data |-> <<>>]]
    /\ doc_i' = 0
    /\ pc' = "tokenise"
    /\ UNCHANGED <<inputs, txt_path, df, docs, loop_i, out_files>>

\* one pass of the tokenisation loop: f.write(' '.join(...) + '\n')
WriteDoc ==
    /\ pc = "tokenise"
    /\ doc_i < Len(docs)
    /\ txt_files' = [txt_files EXCEPT ![txt_path].data =
                        @ \o DocLine(docs[doc_i + 1])]
    /\ doc_i' = doc_i + 1
    /\ UNCHANGED <<inputs, pc, txt_path, df, docs, loop_i, out_files>>

\* the tokenisation loop ends and the file is closed
CloseTxt ==
    /\ pc = "tokenise"
    /\ doc_i = Len(docs)
    /\ loop_i' = 1
    /\ pc' = "store_read"
    /\ UNCHANGED <<inputs, txt_path, df, docs, doc_i, txt_files, out_files>>

\* df = pd.read_csv(IN, sep = '\t').dropna();
\* df.drop(columns = ['title', 'abstract'], inplace = True)
StoreRead ==
    /\ pc = "store_read"
    /\ LET inp == InputTsv(InsOuts(ver)[loop_i])
       IN  df' = DropColumns(Dropna(ReadCsv(inp, AllColumns(inp))),
                             {"title", "abstract"})
    /\ pc' = "store_assign"
    /\ UNCHANGED <<inputs, txt_path, docs, doc_i, loop_i, txt_files, out_files>>

\* cats = df.columns.tolist(); df['text'] = f.readlines();
\* df = df[['text'] + cats]; df.to_csv(OUT, sep = '\t', index = False)
StoreWrite ==
    /\ pc = "store_assign"
    /\ LET cats  == df.columns
           lines == ReadLines(txt_files[txt_path].data)
       IN  /\ CanAssign(df, lines)
           /\ df' = SelectColumns(AssignColumn(df, "text", lines),
                                  <<"text">> \o cats)
    /\ out_files' = [out_files EXCEPT ![InsOuts(ver)[loop_i]] = ToCsv(df')]
    /\ loop_i' = loop_i + 1
    /\ pc' = IF loop_i < Len(InsOuts(ver)) THEN "store_read" ELSE "done"
    /\ UNCHANGED <<inputs, txt_path, docs, doc_i, txt_files>>

\* df['text'] = f.readlines() raises ValueError: the lengths differ
StoreFail ==
    /\ pc = "store_assign"
    /\ ~CanAssign(df, ReadLines(txt_files[txt_path].data))
    /\ pc' = "error"
    /\ UNCHANGED <<inputs, txt_path, df, docs, doc_i, loop_i, txt_files,
                   out_files>>

NextPre ==
    \/ SetPaths
    \/ ReadTitles
    \/ MergeDocs
    \/ OpenTxt
    \/ WriteDoc
    \/ CloseTxt
    \/ StoreRead
    \/ StoreWrite
    \/ StoreFail

SpecPre == InitPre /\ [][NextPre]_vars

-----------------------------------------------------------------------------
(***************************************************************************)
(* Properties of preprocess_data, stated on the files.                     *)
(***************************************************************************)
AfterTokenise == pc \in {"store_read", "store_assign", "done", "error"}

\* the positions of the rows of a file that have both a title and an abstract
RECURSIVE RowsWithDoc(_, _)
RowsWithDoc(rows, i) ==
    IF i > Len(rows) THEN <<>>
    ELSE (IF rows[i].title # <<>> /\ rows[i].abstract # <<>>
          THEN <<i>> ELSE <<>>) \o RowsWithDoc(rows, i + 1)

\* a row's document as its tokens joined by single spaces, plus one newline
ExpectedLine(row) ==
    Join(<<" ">>,
         Tokenize(MergeDoc(ver, [title |-> Str(row.title),
                                 abstract |-> Str(row.abstract)])))
    \o <<"\n">>

TxtLines == ReadLines(txt_files[txt_path].data)

\* C1 (as stated): the text file has exactly one line per row of the input
\* TSV, in input order, each line the row's document as its tokens joined by
\* single spaces and terminated by one newline.
C1_OneLinePerInputRow ==
    AfterTokenise =>
        /\ Len(TxtLines) = Len(cats_tsv.rows)
        /\ \A i \in 1..Len(cats_tsv.rows) :
              TxtLines[i] = ExpectedLine(cats_tsv.rows[i])

\* C1 (amended): the text file has exactly one line per row of the input TSV
\* that has both a title and an abstract, in input order, each line the row's
\* document as its tokens joined by single spaces and terminated by one
\* newline; rows with a missing title or abstract get no line.
C1_OneLinePerCompleteRow ==
    AfterTokenise =>
        LET kept == RowsWithDoc(cats_tsv.rows, 1)
        IN  /\ txt_files[txt_path].exists
            /\ Len(TxtLines) = Len(kept)
            /\ \A k \in 1..Len(kept) :
                  TxtLines[k] = ExpectedLine(cats_tsv.rows[kept[k]])
            /\ txt_files[txt_path].data = Concat(TxtLines)

C1_Witness ==
    /\ pc = "done"
    /\ Len(cats_tsv.rows) = 3
    /\ RowsWithDoc(cats_tsv.rows, 1) = <<1, 3>>
    /\ Len(TxtLines) = 2

\* the category columns of an input file, in file order
CategoryColumns(tsv) == Without(tsv.columns, {"title", "abstract"})

\* C2: every '_pp.tsv' file written has 'text' as its first column, followed
\* by the category columns of its input in their order, and the category
\* values of every written row equal those of the input row it came from:
\* the row whose document is the written row's text.
C2_CategoriesRoundTrip ==
    \A f \in {"cats", "mcats"} :
        out_files[f].exists =>
            LET inp  == InputTsv(f)
                from == RowsWithDoc(inp.rows, 1)
            IN  /\ out_files[f].columns = <<"text">> \o CategoryColumns(inp)
                /\ Len(out_files[f].rows) <= Len(from)
                /\ \A k \in 1..Len(out_files[f].rows) :
                     \A c \in Range(CategoryColumns(inp)) :
                        ParseCell(out_files[f].rows[k][c])
                            = ParseCell(inp.rows[from[k]][c])

\* the largest number of rows or documents one object in memory holds
MemRows == IF Len(docs) >= Len(df.data) THEN Len(docs) ELSE Len(df.data)

\* C5: at every point of the run, the number of input rows or documents held
\* in memory at once is at most batch_size.
C5_MemoryBoundedByBatch == pc # "idle" => MemRows <= batch_size

\* C6: in src/data.py the texts are written to, and read back from, the file
\* data_dir/txt_fname, whatever txt_fname is.
C6_TextsInTxtFname ==
    (ver = "data" /\ pc \in {"tokenise", "store_read", "store_assign",
                             "done", "error"}) =>
        /\ txt_path = txt_fname
        /\ txt_files[txt_fname].exists

-----------------------------------------------------------------------------
(***************************************************************************)
(* BatchWrapper.  A tensor is its dtype and its data; a batch of the       *)
(* wrapped iterator has a text tensor and one tensor of labels per field.  *)
(***************************************************************************)
Tensor(dtype, data) == [dtype |-> dtype, data |-> data]

\* the batches a wrapped iterator of the given batch size can produce k-th:
\* 1..bs samples, any 0/1 labels for c1, the labels of c2 alternating
BatchesAt(k, bs) ==
    UNION {{[text |-> Tensor("int64", <<[i \in 1..n |-> 10 * k + i]>>),
             c1 |-> Tensor("int64", v1),
             c2 |-> Tensor("int64", [i \in 1..n |-> (i + k) % 2])] :
               v1 \in [1..n -> 0..1]} : n \in 1..bs}

\* the runs of up to n batches of such an iterator
RECURSIVE BatchRuns(_, _)
BatchRuns(n, bs) ==
    IF n = 0 THEN {<<>>}
    ELSE LET shorter == BatchRuns(n - 1, bs)
         IN  shorter \cup {Append(r, b) : r \in {q \in shorter : Len(q) = n - 1},
                                          b \in BatchesAt(n, bs)}

\* tensor.unsqueeze(1): a vector of n entries becomes an n x 1 matrix
Unsqueeze1(t) ==
    Tensor(t.dtype, [i \in 1..Len(t.data) |-> <<t.data[i]>>])

\* torch.cat(tensors, dim = 1) of matrices with the same number of rows
CatDim1Mut(ts) ==
    Tensor(ts[1].dtype,
           [i \in 1..Len(ts[1].data) |->
               Concat([k \in 1..Len(ts) |-> ts[Len(ts) + 1 - k].data[i]])])
CatDim1(ts) ==
    Tensor(ts[1].dtype,
           [i \in 1..Len(ts[1].data) |->
               Concat([k \in 1..Len(ts) |-> ts[k].data[i]])])

\* tensor.float(): the same entries (labels are exact in float32) as float32
ToFloat(t) == Tensor("float32", t.data)

\* the pair __iter__ yields for a batch
WrapBatch(batch, cats) ==
    LET x == batch.text
        y == CatDim1([j \in 1..Len(cats) |-> Unsqueeze1(batch[cats[j]])])
    IN  <<x, ToFloat(y)>>

\* len(self.data_iter): the number of batches of one pass
WrappedLen(it) == Len(it.batches)

\* BatchWrapper.__len__
BwLen == WrappedLen(data_iter)

InitWrap ==
    /\ BatchIdle
    /\ PreIdle
    /\ \E bs \in 1..MaxSamples :
          /\ data_iter \in [batch_size : {bs}, batches : BatchRuns(MaxBatches, bs)]
          /\ bw_batch_size = bs
    /\ bw_cats \in {<<"c1">>, <<"c2">>, <<"c1", "c2">>, <<"c2", "c1">>}
    /\ it_state = "none"
    /\ it_pos = 0
    /\ yielded = <<>>
    /\ len_result = -1

\* iter(wrapper): a new generator of __iter__
BwIter ==
    /\ it_state \in {"none", "finished"}
    /\ it_state' = "running"
    /\ it_pos' = 0
    /\ yielded' = <<>>
    /\ UNCHANGED <<data_iter, bw_batch_size, bw_cats, len_result,
                   batchVars, preVars>>

\* next(generator): the loop takes the next batch and yields (x, y.float())
BwNext ==
    /\ it_state = "running"
    /\ it_pos < Len(data_iter.batches)
    /\ yielded' = Append(yielded,
                         WrapBatch(data_iter.batches[it_pos + 1], bw_cats))
    /\ it_pos' = it_pos + 1
    /\ UNCHANGED <<data_iter, bw_batch_size, bw_cats, it_state, len_result,
                   batchVars, preVars>>

\* next(generator): data_iter has no batch left, the generator returns
BwStop ==
    /\ it_state = "running"
    /\ it_pos = Len(data_iter.batches)
    /\ it_state' = "finished"
    /\ UNCHANGED <<data_iter, bw_batch_size, bw_cats, it_pos, yielded,
                   len_result, batchVars, preVars>>

\* len(wrapper)
BwLenCall ==
    /\ it_state # "idle"
    /\ len_result' = BwLen
    /\ UNCHANGED <<data_iter, bw_batch_size, bw_cats, it_state, it_pos, yielded,
                   batchVars, preVars>>

NextWrap ==
    \/ BwIter
    \/ BwNext
    \/ BwStop
    \/ BwLenCall

SpecWrap == InitWrap /\ [][NextWrap]_vars

\* what the claim says the k-th pair is
ExpectedPair(k) ==
    LET b == data_iter.batches[k]
        n == Len(b.text.data[1])
    IN  <<b.text,
          [dtype |-> "float32",
           data |-> [i \in 1..n |->
                       [j \in 1..Len(bw_cats) |-> b[bw_cats[j]].data[i]]]]>>

C7_Pairs ==
    it_state \in {"running", "finished"} =>
        /\ Len(yielded) = it_pos
        /\ it_pos <= Len(data_iter.batches)
        /\ \A k \in 1..Len(yielded) : yielded[k] = ExpectedPair(k)
        /\ it_state = "finished" => Len(yielded) = Len(data_iter.batches)

C7_Len == len_result # -1 => len_result = Len(data_iter.batches)

\* C7: the wrapper yields one (x, y) pair per batch of the wrapped iterator,
\* in its order, x the batch's text and y with one column per category of
\* cats, in the order of cats, column j holding the batch's values of cats[j];
\* len(wrapper) is the wrapped iterator's length; no step changes batch_size
\* or cats.
C7_WrapperYieldsPairs ==
    /\ [](C7_Pairs /\ C7_Len)
    /\ [][bw_batch_size' = bw_batch_size /\ bw_cats' = bw_cats]_vars

C7_Witness ==
    /\ it_state = "finished"
    /\ Len(yielded) = 2
    /\ bw_cats = <<"c2", "c1">>
    /\ Len(yielded[2][2].data) = 2
    /\ yielded[2][2].data[1] # yielded[2][2].data[2]
    /\ yielded[2][2].data[1][1] # yielded[2][2].data[1][2]
    /\ len_result = 2

====
